---- MODULE Spec2Model ----
(***************************************************************************)
(* Model of containerd-shim-wasm's unix container Instance                 *)
(* (crates/containerd-shim-wasm/src/sys/unix/container/instance.rs).       *)
(*                                                                         *)
(* One Instance is shared by several caller threads that issue start,      *)
(* kill, delete and wait_timeout; a successful start spawns the watcher    *)
(* thread.  Every handler is cut into the steps at which other threads can *)
(* observe it: taking the exit-cell guard, locking the container mutex,    *)
(* each call into the container, the spawn, and the drops that run when    *)
(* the function is left (Rust drops locals in reverse order of             *)
(* declaration, so the MutexGuard goes before the exit-cell guard).        *)
(***************************************************************************)
EXTENDS Integers, Sequences, FiniteSets, TLC

\* ------------------------------------------------------------------ bounds

\* Utc::now() reads one of the timestamps 0..MaxClock.
MaxClock == 1

\* A handler's return value nests Ok(..) at most MaxDepth deep.
MaxDepth == 2

\* ------------------------------------------------------- program constants

\* The fallback exit code of the guard and of the watcher's error arms.
SentinelCode == 137

\* Signal termination is published as SignalBase + signal number.
SignalBase == 128

\* ------------------------------------------------------------------ inputs

\* The threads of the shim that call into the Instance.
Callers == {"t1", "t2"}

\* No thread (the mutex is free).
NoThread == "none"

\* The pids the container's init process may have.
Pids == {100}

\* The timestamps Utc::now() may read.
Clock == 0..MaxClock

\* Exit statuses the workload may return.
ExitStatuses == {0, 42}

\* SIGKILL, the signal an out-of-band kill and a forced delete deliver:
\* the sentinel is "128 + 9", the code of a process killed by it.
SIGKILL == SentinelCode - SignalBase

\* Arguments tried for kill(signal): 0 and 32 name no signal, 15 (SIGTERM)
\* does.
KillArgs == {0, 15, 32}

\* Arguments tried for wait_timeout: None blocks, Some(d) times out.
Timeouts == {"None", "Some"}

\* The steps of a caller inside start(), kill(), delete(), wait_timeout().
StartPcs == {"s_lock", "s_pid", "s_pidfd", "s_os", "s_spawn", "s_ret",
             "s_err_unlock", "s_err_guard", "s_panic_unlock", "s_unwind"}
KillPcs == {"k_lock", "k_kill"}
DeletePcs == {"d_lock", "d_delete"}
WaitPcs == {"w_block", "w_timed"}

\* The steps at which a caller holds the container mutex.
CriticalPcs == {"s_pid", "s_pidfd", "s_os", "s_spawn", "s_ret",
                "s_err_unlock", "s_panic_unlock", "k_kill", "d_delete"}

VARIABLES
    exit_code,   \* the exit cell: <<>> while empty, else <<code, timestamp>>
    holder,      \* the thread holding the container mutex, or NoThread
    poisoned,    \* whether the container mutex is poisoned
    status,      \* the container's status as libcontainer sees it
    cause,       \* how the process terminated: <<>> while it is alive
    cpid,        \* the pid of the container's init process
    pc,          \* per caller: the step it is at
    arg,         \* per caller: the argument of the call in progress
    guard,       \* per caller: start()'s frame owns a live exit-cell guard
    pid,         \* per caller: the pid start() read (0: none)
    pidfd,       \* per caller: the pid start()'s PidFd is bound to (0: none)
    osOk,        \* per caller: this start() call's container.start() was Ok
    spawned,     \* per caller: this start() call spawned the watcher
    ret,         \* what the step just taken returned to a caller, if it did
    watcher,     \* the watcher thread's step
    wGuard,      \* the watcher thread owns a live exit-cell guard
    wFd,         \* the pid the watcher's PidFd is bound to
    wOutcome,    \* what the watcher's pidfd.wait() returned (<<>>: not yet)
    wStatus,     \* the status the watcher computed (-1: none yet)
    startCalled, \* history: some start() has been called
    startedOk,   \* history: some start() has returned Ok
    waitResults, \* history: every value a wait_timeout returned as Some
    new,         \* the frame of Instance::new: its step and its locals
    main,        \* the frame of the generated fn main
    run_wasi     \* the frame of the generated run_wasi

instanceVars == <<exit_code, holder, poisoned, status, cause, cpid, pc, arg,
                  guard, pid, pidfd, osOk, spawned, ret, watcher, wGuard, wFd,
                  wOutcome, wStatus, startCalled, startedOk, waitResults>>
\* What the methods of a constructed Instance leave alone.
bootVars == <<new, main, run_wasi>>

vars == <<instanceVars, bootVars>>

sandboxVars == <<status, cause, cpid>>
mutexVars == <<holder, poisoned>>
watcherVars == <<watcher, wGuard, wFd, wOutcome, wStatus>>
frameVars == <<guard, pid, pidfd, osOk, spawned>>
histVars == <<startCalled, startedOk, waitResults>>

\* ------------------------------------------------------------ WaitableCell

\* WaitableCell::new(): the empty cell.
CellNew == <<>>

\* Whether the cell holds a value.
CellIsSet(c) == c # <<>>

\* WaitableCell::set: the first value wins, later ones are dropped.
CellSet(c, v) == IF CellIsSet(c) THEN c ELSE v

\* The guard's default closure of start(): || (137, Utc::now()).
GuardDefault(t) == <<SentinelCode, t>>

\* Dropping a guard made by set_guard_with: set(default()), first wins.
GuardRelease(c, t) == CellSet(c, GuardDefault(t))

\* The exit code of a published value.
Code(v) == v[1]

\* ------------------------------------------------------------------ values

\* `x as u32` for an i32 x.
AsU32(x) == IF x >= 0 THEN x ELSE (x + 2147483647) + 2147483647 + 2

\* `n as i32` for a u32 n.
AsI32(n) == IF n <= 2147483647 THEN n ELSE (n - 2147483647) - 2147483647 - 2

\* Signal::try_from(i32) succeeds on the signal numbers of Linux.
ValidSignal(s) == s \in 1..31

\* The return of a call: who returned from which operation with what.
Ret(t, op, kind, val) == [by |-> t, op |-> op, kind |-> kind, val |-> val]

\* The step just taken returned from no call.
NoRet == Ret(NoThread, "none", "none", <<>>)

\* The outcomes of pidfd.wait().block_on().
Exited(s) == <<"Exited", s>>
Signaled(s) == <<"Signaled", s>>
OtherStatus == <<"Other", 0>>
WaitErr == <<"Err", 0>>

\* WatcherStatus publishing the bare signal number.
WatcherStatusBareSignal(o) ==
    AsU32(CASE o[1] = "Exited" -> o[2]
            [] o[1] = "Signaled" -> o[2]
            [] o[1] = "Other" -> SentinelCode
            [] o[1] = "Err" -> SentinelCode)

\* The match of the watcher thread: wait outcome to published status.
WatcherStatus(o) ==
    AsU32(CASE o[1] = "Exited" -> o[2]
            [] o[1] = "Signaled" -> SignalBase + o[2]
            [] o[1] = "Other" -> SentinelCode
            [] o[1] = "Err" -> SentinelCode)

\* Whether the container's process exists and has not terminated.
ProcAlive == cause = <<>>

\* ------------------------------------------------------------------- Init

InstanceInit ==
    /\ exit_code = CellNew
    /\ holder = NoThread
    /\ poisoned = FALSE
    /\ status = "Created"
    /\ cause = <<>>
    /\ cpid \in Pids
    /\ pc = [t \in Callers |-> "idle"]
    /\ arg = [t \in Callers |-> 0]
    /\ guard = [t \in Callers |-> FALSE]
    /\ pid = [t \in Callers |-> 0]
    /\ pidfd = [t \in Callers |-> 0]
    /\ osOk = [t \in Callers |-> FALSE]
    /\ spawned = [t \in Callers |-> FALSE]
    /\ ret = NoRet
    /\ watcher = "none"
    /\ wGuard = FALSE
    /\ wFd = 0
    /\ wOutcome = <<>>
    /\ wStatus = -1
    /\ startCalled = FALSE
    /\ startedOk = FALSE
    /\ waitResults = {}

\* new() is not running: the Instance exists.
\* pc: the step new() is at; id: the container id; modules, platform: what
\* new() holds of the module resolution; warned: the warning was logged;
\* stdio: the streams given to the builder; executor: the <<modules,
\* platform>> the Executor was built with; ret: what new() returned;
\* failedAt: the call whose error it returned; moduleErr: the
\* module-resolution call that failed.
NewIdle ==
    new = [pc |-> "n_done", id |-> "c1", modules |-> <<>>,
           platform |-> "default", warned |-> FALSE, stdio |-> {},
           executor |-> <<>>, ret |-> "Ok", failedAt |-> "none",
           moduleErr |-> "none"]

\* main() is past its dispatch, in the per-instance CLI role.
\* pc: the step main() is at; name: the engine name the macro was given;
\* os_args: the arguments of the process (only os_args[0] is kept); argv0:
\* the file stem of os_args[0]; version: flags.version; role: the role
\* started; printed: what was printed; exitCode: the code the process
\* exited with (-1: it has not).
MainIdle ==
    main = [pc |-> "m_role", name |-> <<>>, os_args |-> <<>>, argv0 |-> <<>>,
            version |-> FALSE, role |-> "cli", printed |-> "none",
            exitCode |-> -1]

\* run_wasi has not been entered.
\* pc: the step run_wasi is at; tokio: the macro crate was built with the
\* tokio feature; handlerRet: the value the handler returned; cur: the
\* value whose method runs; logged: the errors logged; blockOns: the
\* number of block_on calls; exitArg: <<n>> once exit(n) was called;
\* osCode: the exit status the OS reports (-1: not exited).
TermIdle ==
    run_wasi = [pc |-> "t_idle", tokio |-> FALSE, handlerRet |-> <<>>,
                cur |-> <<>>, logged |-> <<>>, blockOns |-> 0,
                exitArg |-> <<>>, osCode |-> -1]

\* The shim drives one constructed Instance.
Init ==
    /\ InstanceInit
    /\ NewIdle
    /\ MainIdle
    /\ TermIdle

\* ------------------------------------------------------------- environment

\* The started workload returns with an exit status.
ProcessExits ==
    /\ status = "Running"
    /\ ProcAlive
    /\ \E s \in ExitStatuses : cause' = Exited(s)
    /\ status' = "Stopped"
    /\ UNCHANGED <<exit_code, mutexVars, cpid, pc, arg, frameVars, watcherVars,
                   histVars>>
    /\ ret' = NoRet
    /\ UNCHANGED bootVars

\* The process is killed out-of-band: SIGKILL sent directly to the pid.
ProcessKilled ==
    /\ status \in {"Created", "Running"}
    /\ ProcAlive
    /\ cause' = Signaled(SIGKILL)
    /\ status' = "Stopped"
    /\ UNCHANGED <<exit_code, mutexVars, cpid, pc, arg, frameVars, watcherVars,
                   histVars>>
    /\ ret' = NoRet
    /\ UNCHANGED bootVars

\* ------------------------------------------------------------------ start

\* The locals of caller t's start() cease to exist when it is left.
FrameGone(t) ==
    /\ pid' = [pid EXCEPT ![t] = 0]
    /\ pidfd' = [pidfd EXCEPT ![t] = 0]
    /\ osOk' = [osOk EXCEPT ![t] = FALSE]
    /\ spawned' = [spawned EXCEPT ![t] = FALSE]

\* StartCall with the guard not taken before the container is touched.
StartCallNoGuard(t) ==
    /\ pc[t] = "idle"
    /\ pc' = [pc EXCEPT ![t] = "s_lock"]
    /\ ret' = NoRet
    /\ startCalled' = TRUE
    /\ UNCHANGED <<exit_code, mutexVars, sandboxVars, arg, frameVars,
                   watcherVars, startedOk, waitResults>>
    /\ UNCHANGED bootVars

\* start(), line 104: the exit-cell guard is taken first.
StartCall(t) ==
    /\ pc[t] = "idle"
    /\ guard' = [guard EXCEPT ![t] = TRUE]
    /\ UNCHANGED <<pid, pidfd, osOk, spawned>>
    /\ ret' = NoRet
    /\ pc' = [pc EXCEPT ![t] = "s_lock"]
    /\ startCalled' = TRUE
    /\ UNCHANGED <<exit_code, mutexVars, sandboxVars, arg, watcherVars,
                   startedOk, waitResults>>
    /\ UNCHANGED bootVars

\* start(), line 106: self.container.lock().expect("Poisoned mutex").
StartLock(t) ==
    /\ pc[t] = "s_lock"
    /\ holder = NoThread
    /\ IF poisoned
          THEN /\ pc' = [pc EXCEPT ![t] = "s_unwind"]
               /\ UNCHANGED holder
          ELSE /\ pc' = [pc EXCEPT ![t] = "s_pid"]
               /\ holder' = t
    /\ UNCHANGED <<exit_code, poisoned, sandboxVars, arg, frameVars,
                   watcherVars, histVars>>
    /\ ret' = NoRet
    /\ UNCHANGED bootVars

\* start(), line 107: container.pid().context("failed to get pid")?.
StartPid(t) ==
    /\ pc[t] = "s_pid"
    /\ \E ok \in BOOLEAN :
          IF ok
            THEN /\ pid' = [pid EXCEPT ![t] = cpid]
                 /\ pc' = [pc EXCEPT ![t] = "s_pidfd"]
            ELSE /\ pc' = [pc EXCEPT ![t] = "s_err_unlock"]
                 /\ UNCHANGED pid
    /\ UNCHANGED <<exit_code, mutexVars, sandboxVars, arg, guard, pidfd, osOk,
                   spawned, watcherVars, histVars>>
    /\ ret' = NoRet
    /\ UNCHANGED bootVars

\* start(), line 110: PidFd::new(pid)?.
StartPidFd(t) ==
    /\ pc[t] = "s_pidfd"
    /\ \E ok \in BOOLEAN :
          IF ok
            THEN /\ pidfd' = [pidfd EXCEPT ![t] = pid[t]]
                 /\ pc' = [pc EXCEPT ![t] = "s_os"]
            ELSE /\ pc' = [pc EXCEPT ![t] = "s_err_unlock"]
                 /\ UNCHANGED pidfd
    /\ UNCHANGED <<exit_code, mutexVars, sandboxVars, arg, guard, pid, osOk,
                   spawned, watcherVars, histVars>>
    /\ ret' = NoRet
    /\ UNCHANGED bootVars

\* start(), line 112: container.start()?, which libcontainer refuses unless
\* the container is in the Created state.
StartOs(t) ==
    /\ pc[t] = "s_os"
    /\ \E ok \in BOOLEAN :
          IF ok /\ status = "Created"
            THEN /\ status' = "Running"
                 /\ osOk' = [osOk EXCEPT ![t] = TRUE]
                 /\ pc' = [pc EXCEPT ![t] = "s_spawn"]
                 /\ UNCHANGED pidfd
            ELSE /\ pidfd' = [pidfd EXCEPT ![t] = 0]
                 /\ pc' = [pc EXCEPT ![t] = "s_err_unlock"]
                 /\ UNCHANGED <<status, osOk>>
    /\ UNCHANGED <<exit_code, mutexVars, cause, cpid, arg, guard, pid, spawned,
                   watcherVars, histVars>>
    /\ ret' = NoRet
    /\ UNCHANGED bootVars

\* start(), lines 114-117: thread::spawn moves the guard and the PidFd into
\* the watcher thread.  thread::spawn panics when the OS refuses the
\* thread: the closure is dropped, and with it the guard.
StartSpawn(t) ==
    /\ pc[t] = "s_spawn"
    /\ \E ok \in BOOLEAN :
          IF ok
            THEN /\ watcher' = "waiting"
                 /\ wGuard' = TRUE
                 /\ wFd' = pidfd[t]
                 /\ wOutcome' = <<>>
                 /\ wStatus' = -1
                 /\ spawned' = [spawned EXCEPT ![t] = TRUE]
                 /\ pc' = [pc EXCEPT ![t] = "s_ret"]
                 /\ UNCHANGED exit_code
            ELSE /\ \E ts \in Clock : exit_code' = GuardRelease(exit_code, ts)
                 /\ pc' = [pc EXCEPT ![t] = "s_panic_unlock"]
                 /\ UNCHANGED <<watcherVars, spawned>>
    /\ guard' = [guard EXCEPT ![t] = FALSE]
    /\ pidfd' = [pidfd EXCEPT ![t] = 0]
    /\ UNCHANGED <<mutexVars, sandboxVars, arg, pid, osOk, histVars>>
    /\ ret' = NoRet
    /\ UNCHANGED bootVars

\* StartReturn joining the watcher thread before it returns.
StartReturnJoins(t) ==
    /\ pc[t] = "s_ret"
    /\ watcher \in {"done", "aborted"}
    /\ holder' = NoThread
    /\ ret' = Ret(t, "start", "Ok", <<pid[t]>>)
    /\ startedOk' = TRUE
    /\ pc' = [pc EXCEPT ![t] = "idle"]
    /\ FrameGone(t)
    /\ UNCHANGED <<exit_code, poisoned, sandboxVars, arg, guard, watcherVars,
                   startCalled, waitResults>>
    /\ UNCHANGED bootVars

\* start(), lines 134-135: Ok(pid); the MutexGuard is dropped on return.
StartReturn(t) ==
    /\ pc[t] = "s_ret"
    /\ holder' = NoThread
    /\ ret' = Ret(t, "start", "Ok", <<pid[t]>>)
    /\ startedOk' = TRUE
    /\ pc' = [pc EXCEPT ![t] = "idle"]
    /\ FrameGone(t)
    /\ UNCHANGED <<exit_code, poisoned, sandboxVars, arg, guard, watcherVars,
                   startCalled, waitResults>>
    /\ UNCHANGED bootVars

\* start() left by `?` (lines 107, 110, 112): the MutexGuard is dropped
\* first, being declared after the exit-cell guard.
StartErrUnlock(t) ==
    /\ pc[t] = "s_err_unlock"
    /\ holder' = NoThread
    /\ pc' = [pc EXCEPT ![t] = "s_err_guard"]
    /\ UNCHANGED <<exit_code, poisoned, sandboxVars, arg, frameVars,
                   watcherVars, histVars>>
    /\ ret' = NoRet
    /\ UNCHANGED bootVars

\* StartErrGuard with the guard forgotten instead of dropped.
StartErrGuardForgotten(t) ==
    /\ pc[t] = "s_err_guard"
    /\ guard' = [guard EXCEPT ![t] = FALSE]
    /\ ret' = Ret(t, "start", "Err", <<>>)
    /\ pc' = [pc EXCEPT ![t] = "idle"]
    /\ FrameGone(t)
    /\ UNCHANGED <<exit_code, mutexVars, sandboxVars, arg, watcherVars,
                   histVars>>
    /\ UNCHANGED bootVars

\* start() left by `?`: then the exit-cell guard is dropped and Err returned.
StartErrGuard(t) ==
    /\ pc[t] = "s_err_guard"
    /\ \E ts \in Clock : exit_code' = GuardRelease(exit_code, ts)
    /\ guard' = [guard EXCEPT ![t] = FALSE]
    /\ ret' = Ret(t, "start", "Err", <<>>)
    /\ pc' = [pc EXCEPT ![t] = "idle"]
    /\ FrameGone(t)
    /\ UNCHANGED <<mutexVars, sandboxVars, arg, watcherVars, histVars>>
    /\ UNCHANGED bootVars

\* start() unwinding from the panic of thread::spawn: the MutexGuard is
\* dropped during a panic, which poisons the mutex.
StartPanicUnlock(t) ==
    /\ pc[t] = "s_panic_unlock"
    /\ holder' = NoThread
    /\ poisoned' = TRUE
    /\ ret' = Ret(t, "start", "Panic", <<>>)
    /\ pc' = [pc EXCEPT ![t] = "idle"]
    /\ FrameGone(t)
    /\ UNCHANGED <<exit_code, sandboxVars, arg, guard, watcherVars, histVars>>
    /\ UNCHANGED bootVars

\* start() unwinding from expect("Poisoned mutex") (line 106): the
\* exit-cell guard is dropped.
StartUnwind(t) ==
    /\ pc[t] = "s_unwind"
    /\ \E ts \in Clock : exit_code' = GuardRelease(exit_code, ts)
    /\ guard' = [guard EXCEPT ![t] = FALSE]
    /\ ret' = Ret(t, "start", "Panic", <<>>)
    /\ pc' = [pc EXCEPT ![t] = "idle"]
    /\ FrameGone(t)
    /\ UNCHANGED <<mutexVars, sandboxVars, arg, watcherVars, histVars>>
    /\ UNCHANGED bootVars

\* ------------------------------------------------------------------- kill

\* KillCall with the signal number passed on unvalidated.
KillCallUnchecked(t, n) ==
    /\ pc[t] = "idle"
    /\ pc' = [pc EXCEPT ![t] = "k_lock"]
    /\ arg' = [arg EXCEPT ![t] = AsI32(n)]
    /\ ret' = NoRet
    /\ UNCHANGED <<exit_code, mutexVars, sandboxVars, frameVars, watcherVars,
                   histVars>>
    /\ UNCHANGED bootVars

\* kill(), lines 139-143: Signal::try_from(signal as i32) comes first; a
\* number that names no signal returns InvalidArgument at once.
KillCall(t, n) ==
    /\ pc[t] = "idle"
    /\ IF ValidSignal(AsI32(n))
          THEN /\ pc' = [pc EXCEPT ![t] = "k_lock"]
               /\ arg' = [arg EXCEPT ![t] = AsI32(n)]
               /\ ret' = NoRet
          ELSE /\ ret' = Ret(t, "kill", "InvalidArgument", <<n>>)
               /\ UNCHANGED <<pc, arg>>
    /\ UNCHANGED <<exit_code, mutexVars, sandboxVars, frameVars, watcherVars,
                   histVars>>
    /\ UNCHANGED bootVars

\* KillLock reaching the container without waiting for the mutex.
KillLockNoExclusion(t) ==
    /\ pc[t] = "k_lock"
    /\ holder' = t
    /\ pc' = [pc EXCEPT ![t] = "k_kill"]
    /\ ret' = NoRet
    /\ UNCHANGED <<exit_code, poisoned, sandboxVars, arg, frameVars,
                   watcherVars, histVars>>
    /\ UNCHANGED bootVars

\* kill(), lines 145-147: self.container.lock().expect("Poisoned mutex").
KillLock(t) ==
    /\ pc[t] = "k_lock"
    /\ holder = NoThread
    /\ IF poisoned
          THEN /\ ret' = Ret(t, "kill", "Panic", <<>>)
               /\ pc' = [pc EXCEPT ![t] = "idle"]
               /\ arg' = [arg EXCEPT ![t] = 0]
               /\ UNCHANGED holder
          ELSE /\ holder' = t
               /\ pc' = [pc EXCEPT ![t] = "k_kill"]
               /\ ret' = NoRet
               /\ UNCHANGED arg
    /\ UNCHANGED <<exit_code, poisoned, sandboxVars, frameVars, watcherVars,
                   histVars>>
    /\ UNCHANGED bootVars

\* KillSandbox publishing 128 + signal itself when the signal is delivered.
KillSandboxPublishes(t) ==
    /\ pc[t] = "k_kill"
    /\ \E ok \in BOOLEAN, dies \in BOOLEAN :
          IF ok /\ status \in {"Created", "Running"}
            THEN /\ ret' = Ret(t, "kill", "Ok", <<>>)
                 /\ \E ts \in Clock :
                       exit_code' =
                           CellSet(exit_code, <<SignalBase + arg[t], ts>>)
                 /\ IF dies /\ ProcAlive
                       THEN /\ cause' = Signaled(arg[t])
                            /\ status' = "Stopped"
                       ELSE UNCHANGED <<cause, status>>
            ELSE /\ ret' = Ret(t, "kill", "Err", <<>>)
                 /\ UNCHANGED <<cause, status, exit_code>>
    /\ holder' = NoThread
    /\ pc' = [pc EXCEPT ![t] = "idle"]
    /\ arg' = [arg EXCEPT ![t] = 0]
    /\ UNCHANGED <<poisoned, cpid, frameVars, watcherVars, histVars>>
    /\ UNCHANGED bootVars

\* kill(), lines 148-150: container.kill(signal, true)?; the MutexGuard is
\* a temporary of the statement and is dropped with it.  libcontainer
\* signals a container that is Created or Running and refuses otherwise;
\* the signal may terminate the process.
KillSandbox(t) ==
    /\ pc[t] = "k_kill"
    /\ \E ok \in BOOLEAN, dies \in BOOLEAN :
          IF ok /\ status \in {"Created", "Running"}
            THEN /\ ret' = Ret(t, "kill", "Ok", <<>>)
                 /\ IF dies /\ ProcAlive
                       THEN /\ cause' = Signaled(arg[t])
                            /\ status' = "Stopped"
                       ELSE UNCHANGED <<cause, status>>
            ELSE /\ ret' = Ret(t, "kill", "Err", <<>>)
                 /\ UNCHANGED <<cause, status>>
    /\ holder' = NoThread
    /\ pc' = [pc EXCEPT ![t] = "idle"]
    /\ arg' = [arg EXCEPT ![t] = 0]
    /\ UNCHANGED <<exit_code, poisoned, cpid, frameVars, watcherVars, histVars>>
    /\ UNCHANGED bootVars

\* ----------------------------------------------------------------- delete

\* delete(), lines 156-157.
DeleteCall(t) ==
    /\ pc[t] = "idle"
    /\ pc' = [pc EXCEPT ![t] = "d_lock"]
    /\ ret' = NoRet
    /\ UNCHANGED <<exit_code, mutexVars, sandboxVars, arg, frameVars,
                   watcherVars, histVars>>
    /\ UNCHANGED bootVars

\* delete(), lines 158-160: self.container.lock().expect("Poisoned mutex").
DeleteLock(t) ==
    /\ pc[t] = "d_lock"
    /\ holder = NoThread
    /\ IF poisoned
          THEN /\ ret' = Ret(t, "delete", "Panic", <<>>)
               /\ pc' = [pc EXCEPT ![t] = "idle"]
               /\ UNCHANGED holder
          ELSE /\ holder' = t
               /\ pc' = [pc EXCEPT ![t] = "d_delete"]
               /\ ret' = NoRet
    /\ UNCHANGED <<exit_code, poisoned, sandboxVars, arg, frameVars,
                   watcherVars, histVars>>
    /\ UNCHANGED bootVars

\* DeleteSandbox recording the forced kill in the exit cell itself.
DeleteSandboxPublishes(t) ==
    /\ pc[t] = "d_delete"
    /\ \E ok \in BOOLEAN :
          IF ok /\ status # "Deleted"
            THEN /\ ret' = Ret(t, "delete", "Ok", <<>>)
                 /\ status' = "Deleted"
                 /\ cause' = IF ProcAlive THEN Signaled(SIGKILL) ELSE cause
                 /\ \E ts \in Clock :
                       exit_code' = CellSet(exit_code, <<SentinelCode, ts>>)
            ELSE /\ ret' = Ret(t, "delete", "Err", <<>>)
                 /\ UNCHANGED <<cause, status, exit_code>>
    /\ holder' = NoThread
    /\ pc' = [pc EXCEPT ![t] = "idle"]
    /\ UNCHANGED <<poisoned, cpid, arg, frameVars, watcherVars, histVars>>
    /\ UNCHANGED bootVars

\* delete(), lines 161-162: container.delete(true)?; a forced delete kills
\* a process that is still alive (SIGKILL) and removes the container.
DeleteSandbox(t) ==
    /\ pc[t] = "d_delete"
    /\ \E ok \in BOOLEAN :
          IF ok /\ status # "Deleted"
            THEN /\ ret' = Ret(t, "delete", "Ok", <<>>)
                 /\ status' = "Deleted"
                 /\ cause' = IF ProcAlive THEN Signaled(SIGKILL) ELSE cause
            ELSE /\ ret' = Ret(t, "delete", "Err", <<>>)
                 /\ UNCHANGED <<cause, status>>
    /\ holder' = NoThread
    /\ pc' = [pc EXCEPT ![t] = "idle"]
    /\ UNCHANGED <<exit_code, poisoned, cpid, arg, frameVars, watcherVars,
                   histVars>>
    /\ UNCHANGED bootVars

\* ----------------------------------------------------------- wait_timeout

\* wait_timeout(t), line 169: the caller starts to wait on the exit cell.
WaitCall(t, tm) ==
    /\ pc[t] = "idle"
    /\ pc' = [pc EXCEPT ![t] = IF tm = "None" THEN "w_block" ELSE "w_timed"]
    /\ ret' = NoRet
    /\ UNCHANGED <<exit_code, mutexVars, sandboxVars, arg, frameVars,
                   watcherVars, histVars>>
    /\ UNCHANGED bootVars

\* wait_timeout, line 170: the cell is set, Some(value) is returned.
WaitReturn(t) ==
    /\ pc[t] \in WaitPcs
    /\ CellIsSet(exit_code)
    /\ ret' = Ret(t, "wait_timeout", "Some", exit_code)
    /\ waitResults' = waitResults \cup {exit_code}
    /\ pc' = [pc EXCEPT ![t] = "idle"]
    /\ UNCHANGED <<exit_code, mutexVars, sandboxVars, arg, frameVars,
                   watcherVars, startCalled, startedOk>>
    /\ UNCHANGED bootVars

\* WaitTimeout killing the process that did not finish in time.
WaitTimeoutKills(t) ==
    /\ pc[t] = "w_timed"
    /\ ~CellIsSet(exit_code)
    /\ ret' = Ret(t, "wait_timeout", "None", <<>>)
    /\ pc' = [pc EXCEPT ![t] = "idle"]
    /\ IF ProcAlive /\ status = "Running"
          THEN /\ cause' = Signaled(SIGKILL)
               /\ status' = "Stopped"
          ELSE UNCHANGED <<cause, status>>
    /\ UNCHANGED <<exit_code, mutexVars, cpid, arg, frameVars, watcherVars,
                   histVars>>
    /\ UNCHANGED bootVars

\* wait_timeout, line 170: the timeout elapses on an empty cell, None.
WaitTimeout(t) ==
    /\ pc[t] = "w_timed"
    /\ ~CellIsSet(exit_code)
    /\ ret' = Ret(t, "wait_timeout", "None", <<>>)
    /\ pc' = [pc EXCEPT ![t] = "idle"]
    /\ UNCHANGED <<exit_code, mutexVars, sandboxVars, arg, frameVars,
                   watcherVars, histVars>>
    /\ UNCHANGED bootVars

\* ---------------------------------------------------------------- watcher

\* Watcher thread, lines 119-125: pidfd.wait() returns once the process
\* has terminated, with its termination cause or an unexpected status.
WatcherObserve ==
    /\ watcher = "waiting"
    /\ ~ProcAlive
    /\ \E o \in {cause, OtherStatus} :
          /\ wOutcome' = o
          /\ wStatus' = WatcherStatus(o)
    /\ watcher' = "got"
    /\ UNCHANGED <<exit_code, mutexVars, sandboxVars, pc, arg, frameVars,
                   wGuard, wFd, histVars>>
    /\ ret' = NoRet
    /\ UNCHANGED bootVars

\* Watcher thread, lines 126-129: pidfd.wait() fails.
WatcherWaitFails ==
    /\ watcher = "waiting"
    /\ wOutcome' = WaitErr
    /\ wStatus' = WatcherStatus(WaitErr)
    /\ watcher' = "got"
    /\ UNCHANGED <<exit_code, mutexVars, sandboxVars, pc, arg, frameVars,
                   wGuard, wFd, histVars>>
    /\ ret' = NoRet
    /\ UNCHANGED bootVars

\* WatcherSet storing its status over whatever the cell holds.
WatcherSetOverwrites ==
    /\ watcher = "got"
    /\ \E ts \in Clock : exit_code' = <<wStatus, ts>>
    /\ watcher' = "set"
    /\ ret' = NoRet
    /\ UNCHANGED <<mutexVars, sandboxVars, pc, arg, frameVars, wGuard, wFd,
                   wOutcome, wStatus, histVars>>
    /\ UNCHANGED bootVars

\* Watcher thread, line 131: exit_code.set((status, Utc::now())).
WatcherSet ==
    /\ watcher = "got"
    /\ \E ts \in Clock : exit_code' = CellSet(exit_code, <<wStatus, ts>>)
    /\ watcher' = "set"
    /\ UNCHANGED <<mutexVars, sandboxVars, pc, arg, frameVars, wGuard, wFd,
                   wOutcome, wStatus, histVars>>
    /\ ret' = NoRet
    /\ UNCHANGED bootVars

\* Watcher thread, line 132: the closure ends and _guard is dropped.
WatcherExit ==
    /\ watcher = "set"
    /\ \E ts \in Clock : exit_code' = GuardRelease(exit_code, ts)
    /\ wGuard' = FALSE
    /\ wFd' = 0
    /\ watcher' = "done"
    /\ UNCHANGED <<mutexVars, sandboxVars, pc, arg, frameVars, wOutcome,
                   wStatus, histVars>>
    /\ ret' = NoRet
    /\ UNCHANGED bootVars

\* WatcherAbort with the guard leaked instead of dropped by the unwinding.
WatcherAbortKeepsGuard ==
    /\ watcher = "waiting"
    /\ watcher' = "aborted"
    /\ ret' = NoRet
    /\ UNCHANGED <<exit_code, mutexVars, sandboxVars, pc, arg, frameVars,
                   wGuard, wFd, wOutcome, wStatus, histVars>>
    /\ UNCHANGED bootVars

\* Watcher thread, lines 117-119: the thread panics inside the wait, before
\* its set; unwinding drops _guard.
WatcherAbort ==
    /\ watcher = "waiting"
    /\ \E ts \in Clock : exit_code' = GuardRelease(exit_code, ts)
    /\ wGuard' = FALSE
    /\ wFd' = 0
    /\ watcher' = "aborted"
    /\ UNCHANGED <<mutexVars, sandboxVars, pc, arg, frameVars, wOutcome,
                   wStatus, histVars>>
    /\ ret' = NoRet
    /\ UNCHANGED bootVars

\* ------------------------------------------------------------ specification

\* A step of caller t inside start() that does not wait for the mutex.
StartStep(t) ==
    \/ StartPid(t)
    \/ StartPidFd(t)
    \/ StartOs(t)
    \/ StartSpawn(t)
    \/ StartReturn(t)
    \/ StartErrUnlock(t)
    \/ StartErrGuard(t)
    \/ StartPanicUnlock(t)
    \/ StartUnwind(t)

\* A step of caller t that acquires the container mutex.
LockStep(t) ==
    \/ StartLock(t)
    \/ KillLock(t)
    \/ DeleteLock(t)

\* A step of caller t inside kill(), delete() or wait_timeout().
OtherStep(t) ==
    \/ KillSandbox(t)
    \/ DeleteSandbox(t)
    \/ WaitReturn(t)
    \/ WaitTimeout(t)

\* A caller issues a call.
Call(t) ==
    \/ StartCall(t)
    \/ \E n \in KillArgs : KillCall(t, n)
    \/ DeleteCall(t)
    \/ \E tm \in Timeouts : WaitCall(t, tm)

\* A step of the watcher thread.
WatcherStep ==
    \/ WatcherObserve
    \/ WatcherWaitFails
    \/ WatcherSet
    \/ WatcherExit
    \/ WatcherAbort

Next ==
    \/ \E t \in Callers : Call(t)
    \/ \E t \in Callers : LockStep(t)
    \/ \E t \in Callers : StartStep(t)
    \/ \E t \in Callers : OtherStep(t)
    \/ WatcherStep
    \/ ProcessExits
    \/ ProcessKilled

Spec == Init /\ [][Next]_vars

\* The threads are scheduled fairly: a caller inside a call takes its next
\* step, a caller waiting for the mutex gets it when it is free again and
\* again, the watcher thread runs, a timeout elapses.  The workload is
\* assumed to finish: a started process that is not killed exits.
Fairness ==
    /\ \A t \in Callers : WF_vars(StartStep(t) \/ OtherStep(t))
    /\ \A t \in Callers : SF_vars(LockStep(t))
    /\ WF_vars(WatcherObserve \/ WatcherSet \/ WatcherExit)
    /\ WF_vars(ProcessExits)

LiveSpec == Init /\ [][Next]_vars /\ Fairness

\* ---------------------------------------------------------- Instance::new

\* The container ids new() is called with.
Ids == {"c1", "c2"}

\* The module lists load_modules may return.
ModuleLists == {<<>>, <<"m1">>, <<"m1", "m2">>}

\* Platform::default() and another platform load_modules may return.
PlatformDefault == "default"
Platforms == {PlatformDefault, "wasip1"}

\* The standard streams of the container configuration.
Streams == {"stdin", "stdout", "stderr"}

\* The frame of a new() that leaves by an error of the call named `at`.
NewFails(f, at) == [f EXCEPT !.pc = "n_done", !.ret = "Err", !.failedAt = at]

\* new() is called: new(id, cfg).
NewInit ==
    /\ InstanceInit
    /\ MainIdle
    /\ TermIdle
    /\ \E i \in Ids :
          new = [pc |-> "n_connect", id |-> i, modules |-> <<>>,
                 platform |-> PlatformDefault, warned |-> FALSE,
                 stdio |-> {}, executor |-> <<>>, ret |-> "none",
                 failedAt |-> "none", moduleErr |-> "none"]

\* new(), line 43: containerd::Client::connect(..).block_on()?; an error
\* of connect leaves new() through the `?`.
NewConnect ==
    /\ new.pc = "n_connect"
    /\ \E ok \in BOOLEAN :
          new' = IF ok
                   THEN [new EXCEPT !.pc = "n_load"]
                   ELSE [NewFails(new, "connect") EXCEPT
                             !.moduleErr = "connect"]
    /\ UNCHANGED <<instanceVars, main, run_wasi>>

\* new(), lines 44-49: load_modules(..).block_on().unwrap_or_else(..); an
\* error is logged as a warning and replaced by (vec![], default platform).
NewLoadModules ==
    /\ new.pc = "n_load"
    /\ \/ \E ms \in ModuleLists, pf \in Platforms :
             new' = [new EXCEPT !.pc = "n_rootdir", !.modules = ms,
                                !.platform = pf]
       \/ new' = [new EXCEPT !.pc = "n_rootdir", !.warned = TRUE,
                             !.modules = <<>>,
                             !.platform = PlatformDefault,
                             !.moduleErr = "load"]
    /\ UNCHANGED <<instanceVars, main, run_wasi>>

\* new(), lines 51-58: inside the zygote, determine_rootdir(..)?.
NewRootdir ==
    /\ new.pc = "n_rootdir"
    /\ \E ok \in BOOLEAN :
          new' = IF ok
                   THEN [new EXCEPT !.pc = "n_builder"]
                   ELSE NewFails(new, "determine_rootdir")
    /\ UNCHANGED <<instanceVars, main, run_wasi>>

\* new(), lines 61-63: the builder gets Executor::new(engine, modules,
\* platform) and the root path, with_root_path(..)?.
NewBuilder ==
    /\ new.pc = "n_builder"
    /\ \E ok \in BOOLEAN :
          LET built == [new EXCEPT
                           !.executor = <<new.modules, new.platform>>]
          IN  new' = IF ok
                       THEN [built EXCEPT !.pc = "n_stdio"]
                       ELSE NewFails(built, "with_root_path")
    /\ UNCHANGED <<instanceVars, main, run_wasi>>

\* new(), lines 65-73: each standard stream that opens is given to the
\* builder, one that does not open is skipped.
NewStdio ==
    /\ new.pc = "n_stdio"
    /\ \E opened \in SUBSET Streams :
          new' = [new EXCEPT !.pc = "n_build", !.stdio = opened]
    /\ UNCHANGED <<instanceVars, main, run_wasi>>

\* new(), lines 75-86: builder...build()?, and the zygote's result through
\* map_err(..)?.
NewBuild ==
    /\ new.pc = "n_build"
    /\ \E ok \in BOOLEAN :
          new' = IF ok
                   THEN [new EXCEPT !.pc = "n_ret"]
                   ELSE NewFails(new, "build")
    /\ UNCHANGED <<instanceVars, main, run_wasi>>

\* new(), lines 87-94: Ok(Self { exit_code: WaitableCell::new(), container:
\* Mutex::new(container), .. }).
NewReturn ==
    /\ new.pc = "n_ret"
    /\ new' = [new EXCEPT !.pc = "n_done", !.ret = "Ok"]
    /\ exit_code' = CellNew
    /\ holder' = NoThread
    /\ poisoned' = FALSE
    /\ status' = "Created"
    /\ UNCHANGED <<cause, cpid, pc, arg, guard, pid, pidfd, osOk, spawned, ret,
                   watcher, wGuard, wFd, wOutcome, wStatus, startCalled,
                   startedOk, waitResults>>
    /\ UNCHANGED <<main, run_wasi>>

NewNext ==
    \/ NewConnect
    \/ NewLoadModules
    \/ NewRootdir
    \/ NewBuilder
    \/ NewStdio
    \/ NewBuild
    \/ NewReturn

NewSpec == NewInit /\ [][NewNext]_vars

\* ------------------------------------------------- the generated fn main

\* Strings are sequences of characters.  The literals of main's format
\* strings:
ContainerdDash == <<"c", "o", "n", "t", "a", "i", "n", "e", "r", "d", "-">>
ShimDash == <<"s", "h", "i", "m", "-">>
DashV1 == <<"-", "v", "1">>

\* The exit code of a Rust process whose main thread panicked.
PanicCode == 101

\* The engine names given to the macro (Rust identifiers).
Names == {<<"D", "e", "m", "o">>, <<"d", "e", "m", "o">>, <<"W">>}

\* char::to_lowercase on the characters in use.
Lower(c) ==
    CASE c = "C" -> "c"
      [] c = "D" -> "d"
      [] c = "W" -> "w"
      [] OTHER -> c

\* str::to_lowercase (line 11).
ToLowercase(str) == [i \in 1..Len(str) |-> Lower(str[i])]

\* format!("containerd-shim-{}-v1", lower_name), line 121.
ShimCli(lower_name) == ContainerdDash \o ShimDash \o lower_name \o DashV1

\* format!("containerd-shim-{}d-v1", lower_name), line 122.
ShimClient(lower_name) ==
    ContainerdDash \o ShimDash \o lower_name \o <<"d">> \o DashV1

\* format!("containerd-{}d", lower_name), line 123.
ShimDaemon(lower_name) == ContainerdDash \o lower_name \o <<"d">>

\* The last index of character c in str, 0 when there is none.
LastIndexOf(str, c) ==
    LET I == {i \in 1..Len(str) : str[i] = c}
    IN  IF I = {} THEN 0 ELSE CHOOSE i \in I : \A j \in I : j <= i

\* Path components ignore a trailing separator and a trailing "." part.
RECURSIVE Trim(_)
Trim(path) ==
    LET n == Len(path)
    IN  IF n > 1 /\ path[n] = "/" THEN Trim(SubSeq(path, 1, n - 1))
        ELSE IF n > 1 /\ path[n] = "." /\ path[n - 1] = "/"
                THEN Trim(SubSeq(path, 1, n - 1))
        ELSE path

\* Path::file_name: the last component when it is a normal one; <<>>
\* stands for None (no components, the root, "." or a final "..").
FileName(path) ==
    LET q == Trim(path)
        f == SubSeq(q, LastIndexOf(q, "/") + 1, Len(q))
    IN  IF f \in {<<>>, <<".">>, <<".", ".">>} THEN <<>> ELSE f

\* Path::file_stem().unwrap_or_default() (line 109): the file name up to
\* its last '.', the whole name when it has no '.' or only a leading one;
\* None becomes the empty string.
FileStem(path) ==
    LET f == FileName(path)
        j == LastIndexOf(f, ".")
    IN  IF j <= 1 THEN f ELSE SubSeq(f, 1, j - 1)

\* OsStr::to_string_lossy (line 109): a byte that is no UTF-8 becomes
\* U+FFFD.
ToStringLossy(os) ==
    [i \in 1..Len(os) |-> IF os[i] = "xFF" THEN "uFFFD" ELSE os[i]]

\* The directories the shim binary is invoked from.
Dirs == {<<>>, <<"/", "b", "/">>}

\* The extensions the binary's file name may carry.
Exts == {<<>>, <<".", "e">>}

\* The file names tried for an engine called nm: the three role names, the
\* CLI name in upper case, with the name as written and with a stray
\* byte, an unrelated name and "..".
Bases(nm) ==
    LET l == ToLowercase(nm)
    IN  {ShimCli(l), ShimClient(l), ShimDaemon(l), ShimCli(nm),
         <<"C">> \o Tail(ShimCli(l)), ShimCli(l) \o <<"xFF">>,
         <<"u", "n", "k">>, <<".", ".">>}

\* The values of os_args[0] tried for an engine called nm.
Argv0s(nm) ==
    {d \o b \o e : d \in Dirs, b \in Bases(nm), e \in Exts}

\* The frame of a main() that has left the process with exit code c.
MainExits(f, c) == [f EXCEPT !.pc = "m_exited", !.exitCode = c]

\* The shim binary is executed.
MainInit ==
    /\ InstanceInit
    /\ NewIdle
    /\ TermIdle
    /\ \E nm \in Names :
          main = [pc |-> "m_args", name |-> nm, os_args |-> <<>>,
                  argv0 |-> <<>>, version |-> FALSE, role |-> "none",
                  printed |-> "none", exitCode |-> -1]

\* main(), line 106: os_args = args_os().collect().
MainArgs ==
    /\ main.pc = "m_args"
    /\ \E a \in Argv0s(main.name) :
          main' = [main EXCEPT !.pc = "m_parse", !.os_args = <<a>>]
    /\ UNCHANGED <<instanceVars, new, run_wasi>>

\* main(), line 107: flags = shim::parse(&os_args[1..]).unwrap().
MainParse ==
    /\ main.pc = "m_parse"
    /\ \/ \E v \in BOOLEAN :
             main' = [main EXCEPT !.pc = "m_stem", !.version = v]
       \/ main' = MainExits(main, PanicCode)
    /\ UNCHANGED <<instanceVars, new, run_wasi>>

\* main(), lines 108-109: argv0 = the file stem of os_args[0].
MainStem ==
    /\ main.pc = "m_stem"
    /\ main' = [main EXCEPT
                   !.pc = "m_version",
                   !.argv0 = ToStringLossy(FileStem(main.os_args[1]))]
    /\ UNCHANGED <<instanceVars, new, run_wasi>>

\* MainVersion with the version flag looked at by nobody.
MainVersionIgnored ==
    /\ main.pc = "m_version"
    /\ main' = [main EXCEPT !.pc = "m_dispatch"]
    /\ UNCHANGED <<instanceVars, new, run_wasi>>

\* main(), lines 111-119: with flags.version the version block is printed
\* and the process exits with 0.
MainVersion ==
    /\ main.pc = "m_version"
    /\ main' = IF main.version
                 THEN MainExits([main EXCEPT !.printed = "version"], 0)
                 ELSE [main EXCEPT !.pc = "m_dispatch"]
    /\ UNCHANGED <<instanceVars, new, run_wasi>>

\* main(), lines 121-148: argv0 is compared with the three role names.
MainDispatch ==
    /\ main.pc = "m_dispatch"
    /\ LET lower_name == ToLowercase(main.name)
       IN  main' =
             IF main.argv0 = ShimCli(lower_name)
               THEN [main EXCEPT !.pc = "m_role", !.role = "cli"]
             ELSE IF main.argv0 = ShimClient(lower_name)
               THEN [main EXCEPT !.pc = "m_role", !.role = "client"]
             ELSE IF main.argv0 = ShimDaemon(lower_name)
               THEN [main EXCEPT !.pc = "m_bind", !.role = "daemon"]
             ELSE MainExits([main EXCEPT !.printed = "usage"],
                            SentinelCode)
    /\ UNCHANGED <<instanceVars, new, run_wasi>>

\* main(), lines 127 and 129: shim::run returns and main() with it.
MainRoleReturns ==
    /\ main.pc = "m_role"
    /\ main' = MainExits(main, 0)
    /\ UNCHANGED <<instanceVars, new, run_wasi>>

\* main(), lines 136-139: the daemon binds its socket,
\* expect("failed to bind to socket").
MainDaemonBind ==
    /\ main.pc = "m_bind"
    /\ \/ main' = [main EXCEPT !.pc = "m_start"]
       \/ main' = MainExits(main, PanicCode)
    /\ UNCHANGED <<instanceVars, new, run_wasi>>

\* main(), lines 141-144: server.start().expect("failed to start daemon"),
\* then rx.recv() blocks for ever.
MainDaemonStart ==
    /\ main.pc = "m_start"
    /\ \/ main' = [main EXCEPT !.pc = "m_serve"]
       \/ main' = MainExits(main, PanicCode)
    /\ UNCHANGED <<instanceVars, new, run_wasi>>

MainNext ==
    \/ MainArgs
    \/ MainParse
    \/ MainStem
    \/ MainVersion
    \/ MainDispatch
    \/ MainRoleReturns
    \/ MainDaemonBind
    \/ MainDaemonStart

MainSpec == MainInit /\ [][MainNext]_vars

\* ------------------------------------------------ the generated run_wasi

\* A value a handler returns is a leaf ((), an i32 or Err(e)) inside a
\* sequence of wrappers, outermost first: "Ok" for Ok(..), "Deferred" for a
\* future with that output.  Infallible has no value.
Value(wraps, leaf) == [wraps |-> wraps, leaf |-> leaf]

\* The i32 values tried, both ends of the range included.
ExitInts == {0, 3, 5, 137, 255, 256, 257, -1, -256, 2147483647,
             -2147483647 - 1}

\* The errors tried, by number.
Errors == {1, 2}

\* The leaves.
Leaves ==
    {[tag |-> "Unit", n |-> 0]}
        \cup {[tag |-> "Int", n |-> i] : i \in ExitInts}
        \cup {[tag |-> "Err", n |-> e] : e \in Errors}

\* The values of the types that implement WasiTermination (lines 64-96).
Terms ==
    {Value([i \in 1..k |-> "Ok"], l) : k \in 0..MaxDepth, l \in Leaves}

\* The futures WasiTerminationFuture covers (lines 16-27): their output
\* implements WasiTermination.
Futures == {Value(<<"Deferred">> \o v.wraps, v.leaf) : v \in Terms}

\* What a handler can return in a build with or without tokio (line 14).
HandlerValues(tk) == IF tk THEN Terms \cup Futures ELSE Terms

\* The value inside the outermost wrapper.
Inner(v) == Value(Tail(v.wraps), v.leaf)

\* ExitStatus passing the whole i32 on.
ExitStatusWide(n) == n

\* The exit status of a process that called exit(n): the low 8 bits.
ExitStatus(n) == n % 256

\* The frame after ::std::process::exit(n): the process has ended,
\* nothing returns.
Exit(f, n) ==
    [f EXCEPT !.pc = "t_exited", !.exitArg = <<n>>, !.osCode = ExitStatus(n)]

\* run_wasi is entered in the container's process.
TermInit ==
    /\ InstanceInit
    /\ NewIdle
    /\ MainIdle
    /\ \E tk \in BOOLEAN :
          run_wasi = [pc |-> "t_call", tokio |-> tk, handlerRet |-> <<>>,
                      cur |-> <<>>, logged |-> <<>>, blockOns |-> 0,
                      exitArg |-> <<>>, osCode |-> -1]

\* run_wasi, line 100: the handler is called and the method is invoked on
\* what it returned.
RunWasi ==
    /\ run_wasi.pc = "t_call"
    /\ \E v \in HandlerValues(run_wasi.tokio) :
          run_wasi' = [run_wasi EXCEPT !.pc = "t_resolve", !.handlerRet = v,
                                      !.cur = v]
    /\ UNCHANGED <<instanceVars, new, main>>

\* WasiTerminationFuture, lines 24-26: block_on(self), then the method of
\* the output.
ResolveFuture ==
    /\ run_wasi.pc = "t_resolve"
    /\ run_wasi.cur.wraps # <<>>
    /\ Head(run_wasi.cur.wraps) = "Deferred"
    /\ run_wasi' = [run_wasi EXCEPT !.blockOns = @ + 1, !.cur = Inner(@)]
    /\ UNCHANGED <<instanceVars, new, main>>

\* WasiTermination for Result, line 89: Ok(term) => the method of term.
ResolveOk ==
    /\ run_wasi.pc = "t_resolve"
    /\ run_wasi.cur.wraps # <<>>
    /\ Head(run_wasi.cur.wraps) = "Ok"
    /\ run_wasi' = [run_wasi EXCEPT !.cur = Inner(@)]
    /\ UNCHANGED <<instanceVars, new, main>>

\* ResolveErr leaving with the generic failure code 1.
ResolveErrExitsOne ==
    /\ run_wasi.pc = "t_resolve"
    /\ run_wasi.cur.wraps = <<>>
    /\ run_wasi.cur.leaf.tag = "Err"
    /\ run_wasi' =
          Exit([run_wasi EXCEPT !.logged = Append(@, run_wasi.cur.leaf.n)],
               1)
    /\ UNCHANGED <<instanceVars, new, main>>

\* WasiTermination for Result, lines 90-93: Err(err) is logged, exit(137).
ResolveErr ==
    /\ run_wasi.pc = "t_resolve"
    /\ run_wasi.cur.wraps = <<>>
    /\ run_wasi.cur.leaf.tag = "Err"
    /\ run_wasi' =
          Exit([run_wasi EXCEPT !.logged = Append(@, run_wasi.cur.leaf.n)],
               SentinelCode)
    /\ UNCHANGED <<instanceVars, new, main>>

\* WasiTermination for (), lines 68-72: exit(0).
ResolveUnit ==
    /\ run_wasi.pc = "t_resolve"
    /\ run_wasi.cur.wraps = <<>>
    /\ run_wasi.cur.leaf.tag = "Unit"
    /\ run_wasi' = Exit(run_wasi, 0)
    /\ UNCHANGED <<instanceVars, new, main>>

\* WasiTermination for i32, lines 74-78: exit(self).
ResolveInt ==
    /\ run_wasi.pc = "t_resolve"
    /\ run_wasi.cur.wraps = <<>>
    /\ run_wasi.cur.leaf.tag = "Int"
    /\ run_wasi' = Exit(run_wasi, run_wasi.cur.leaf.n)
    /\ UNCHANGED <<instanceVars, new, main>>

\* A step of the resolution started on line 100.
Resolve ==
    \/ ResolveFuture
    \/ ResolveOk
    \/ ResolveErr
    \/ ResolveUnit
    \/ ResolveInt

TermNext ==
    \/ RunWasi
    \/ Resolve

TermSpec == TermInit /\ [][TermNext]_vars

\* ------------------------------------------------------------------ claims

\* C1: the exit cell takes a value at most once: once it holds a value no
\* step changes it (the first write wins, every later write is dropped),
\* and all wait_timeout calls that returned Some returned the same
\* (code, timestamp).
C1_ExitCellSetOnce ==
    /\ [][CellIsSet(exit_code) => exit_code' = exit_code]_vars
    /\ [](\A a, b \in waitResults : a = b)
    /\ [][(ret'.op = "wait_timeout" /\ ret'.kind = "Some")
             => (ret'.val \in waitResults' /\ ret'.val = exit_code)]_vars

\* C1 witness: the guard's default was written first, the watcher's later
\* set of the exit status 42 was dropped, one wait_timeout has returned the
\* default and a second one has just returned it too.
C1_Witness ==
    /\ watcher = "done"
    /\ wStatus = 42
    /\ Code(exit_code) = 137
    /\ waitResults = {exit_code}
    /\ ret.op = "wait_timeout"
    /\ ret.kind = "Some"
    /\ ret.val = exit_code
    /\ \E t \in Callers \ {ret.by} : pc[t] \in WaitPcs

C3_ExitStatusReported ==
    (startedOk /\ cause # <<>> /\ cause[1] = "Exited" /\ wOutcome = cause)
        => \A r \in waitResults : Code(r) = cause[2]

\* C4: every step that releases an exit-cell guard without handing it to
\* the watcher (start() left by an error or a panic, the watcher thread
\* ending or aborting) leaves the cell holding a value, and when the cell
\* was empty before, that value is the default with code 137.
C4_GuardReleasePublishes ==
    [][((\E t \in Callers : guard[t] /\ ~guard'[t] /\ ~spawned'[t])
          \/ (wGuard /\ ~wGuard'))
        => (CellIsSet(exit_code')
              /\ (~CellIsSet(exit_code) => Code(exit_code') = 137))]_vars

\* C4 witness: start() has just returned Err, no watcher was ever spawned
\* and the cell holds the default.
C4_Witness ==
    /\ ret.op = "start"
    /\ ret.kind = "Err"
    /\ watcher = "none"
    /\ CellIsSet(exit_code)
    /\ Code(exit_code) = 137

\* C5: inside start() the guard is live from the first step until it is
\* handed to the watcher; the pid is read and the PidFd bound to it under
\* the mutex before container.start() is issued; the watcher is spawned only
\* by a call whose container.start() returned Ok, and takes the guard over;
\* a start() that returns Err has spawned no watcher.
C5_StartOrder ==
    /\ [](\A t \in Callers :
            /\ pc[t] \in {"s_lock", "s_pid", "s_pidfd", "s_os", "s_spawn"}
                  => guard[t]
            /\ pc[t] \in {"s_pidfd", "s_os", "s_spawn"}
                  => (holder = t /\ pid[t] = cpid)
            /\ pc[t] \in {"s_os", "s_spawn"} => pidfd[t] = pid[t]
            /\ pc[t] = "s_spawn" => osOk[t]
            /\ spawned[t] => osOk[t])
    /\ [][/\ (status = "Created" /\ status' = "Running")
               => \E t \in Callers :
                     /\ pc[t] = "s_os"
                     /\ guard[t]
                     /\ holder = t
                     /\ pidfd[t] = cpid
                     /\ watcher' = watcher
          /\ (watcher' = "waiting" /\ watcher # "waiting")
               => \E t \in Callers :
                     /\ pc[t] = "s_spawn"
                     /\ osOk[t]
                     /\ guard[t] /\ ~guard'[t] /\ wGuard'
                     /\ wFd' = cpid
          /\ (ret'.op = "start" /\ ret'.kind = "Err")
               => (~spawned[ret'.by] /\ watcherVars' = watcherVars)]_vars

\* C5 witness: a start() is about to return Ok with the watcher spawned and
\* owning the guard.
C5_Witness ==
    \E t \in Callers :
        /\ pc[t] = "s_ret"
        /\ spawned[t]
        /\ ~guard[t]
        /\ wGuard
        /\ watcher = "waiting"

\* The status the claim C6 gives for a wait outcome.
C6_Published(o) ==
    IF o[1] = "Exited" THEN o[2]
    ELSE IF o[1] = "Signaled" THEN 128 + o[2]
    ELSE 137

\* C6: the status the watcher computes, and publishes when its set wins, is
\* status for Exited(status), 128 + sig for Signaled(sig), 137 for any
\* other wait status and for a wait error; the start() that spawned the
\* watcher returns Ok, never an error.
C6_WatcherStatusMap ==
    /\ [](wOutcome # <<>> => wStatus = C6_Published(wOutcome))
    /\ [][(watcher = "got" /\ watcher' = "set" /\ ~CellIsSet(exit_code))
             => Code(exit_code') = C6_Published(wOutcome)]_vars
    /\ [][(ret'.op = "start" /\ spawned[ret'.by]) => ret'.kind = "Ok"]_vars

\* C6 witness: the process was terminated by SIGTERM and 128 + 15 was
\* published.
C6_Witness ==
    /\ wOutcome = Signaled(15)
    /\ watcher = "done"
    /\ Code(exit_code) = 143

\* C7: a kill with a number that names no signal never gets as far as the
\* mutex or the container (only valid signals are ever pending in kill() or
\* delivered), and the step that returns InvalidArgument changes neither
\* the mutex, the container, the exit cell, the watcher nor any caller.
C7_InvalidSignalRejected ==
    /\ [](\A t \in Callers : pc[t] \in KillPcs => arg[t] \in 1..31)
    /\ [](cause # <<>> /\ cause[1] = "Signaled" => cause[2] \in 1..31)
    /\ [][(ret'.op = "kill" /\ ret'.kind = "InvalidArgument")
             => (/\ ret'.val[1] \notin 1..31
                 /\ UNCHANGED <<exit_code, mutexVars, sandboxVars, pc, arg,
                                frameVars, watcherVars, histVars>>)]_vars

\* C7 witness: kill(0) has just returned InvalidArgument while another
\* caller holds the mutex and the process runs.
C7_Witness ==
    /\ ret.op = "kill"
    /\ ret.kind = "InvalidArgument"
    /\ ret.val = <<0>>
    /\ holder \in Callers \ {ret.by}
    /\ status = "Running"

\* C8: at most one caller is inside a critical section on the container,
\* the caller inside is the holder of the mutex, and the container is
\* started or deleted only by the holder, at the step that does so.
C8_MutualExclusion ==
    /\ [](Cardinality({t \in Callers : pc[t] \in CriticalPcs}) <= 1)
    /\ [](\A t \in Callers : pc[t] \in CriticalPcs <=> holder = t)
    /\ [][((status = "Created" /\ status' = "Running")
              \/ (status # "Deleted" /\ status' = "Deleted"))
             => (holder \in Callers
                   /\ pc[holder] \in {"s_os", "d_delete"})]_vars

\* C8 witness: one caller is about to issue container.start() while another
\* one waits for the mutex in delete().
C8_Witness ==
    /\ pc["t1"] = "s_os"
    /\ pc["t2"] = "d_lock"
    /\ holder = "t1"

C10_StartDoesNotWait ==
    /\ \A t \in Callers : pc[t] = "s_ret" => ENABLED StartReturn(t)
    /\ (\A u \in Callers : pc[u] \notin CriticalPcs) => holder = NoThread
    /\ \A t \in Callers :
          (pc[t] \in {"k_lock", "d_lock"}
             /\ \A u \in Callers : pc[u] \notin CriticalPcs)
          => ENABLED LockStep(t)

\* C10 witness: start() has just returned Ok while the process runs and the
\* watcher waits, and the other caller is about to lock in kill().
C10_Witness ==
    /\ ret.op = "start"
    /\ ret.kind = "Ok"
    /\ status = "Running"
    /\ ProcAlive
    /\ watcher = "waiting"
    /\ \E t \in Callers : pc[t] = "k_lock"

\* C11: no step of delete() (the call, taking the mutex, the forced delete
\* and its return with Ok, Err or a panic) changes the exit cell, the values
\* wait_timeout has returned, or the watcher; this in every state delete()
\* is called in: before a start, while the process runs, after its exit.
C11_DeleteKeepsExitCode ==
    [][((\E t \in Callers :
            \/ pc[t] = "idle" /\ pc'[t] = "d_lock"
            \/ pc[t] \in DeletePcs /\ pc'[t] # pc[t])
          \/ ret'.op = "delete")
        => (/\ exit_code' = exit_code
            /\ waitResults' = waitResults
            /\ watcherVars' = watcherVars)]_vars

\* C11 witness: delete() has just returned Ok on a container whose process
\* was running (the forced delete killed it); the cell is still empty and
\* the watcher has not yet seen the termination.
C11_Witness ==
    /\ ret.op = "delete"
    /\ ret.kind = "Ok"
    /\ startedOk
    /\ status = "Deleted"
    /\ cause = Signaled(SIGKILL)
    /\ watcher = "waiting"
    /\ ~CellIsSet(exit_code)

\* C12 (as claimed): whenever kill() returns to its caller it returns Ok or
\* an error (InvalidArgument or the container's), never by a panic, in
\* every reachable state of the Instance, those after a start() that
\* unwound while holding the container mutex included.
C12_KillNeverPanics ==
    ret.op = "kill" => ret.kind \in {"Ok", "Err", "InvalidArgument"}

\* C18: while no start() has been called the exit cell is empty, whatever
\* kill, delete and wait_timeout calls were made, and every wait_timeout
\* that returns then returns None; a wait_timeout with a finite timeout can
\* always take that return.
C18_EmptyBeforeStart ==
    /\ [](~startCalled => exit_code = CellNew)
    /\ [][(~startCalled' /\ ret'.op = "wait_timeout")
             => ret'.kind = "None"]_vars
    /\ [](\A t \in Callers :
            (~startCalled /\ pc[t] = "w_timed") => ENABLED WaitTimeout(t))

\* C18 witness: no start() was ever called, the created process was
\* terminated by kill(SIGTERM) and the container deleted, and a
\* wait_timeout has just timed out.
C18_Witness ==
    /\ ~startCalled
    /\ cause = Signaled(15)
    /\ status = "Deleted"
    /\ ret.op = "wait_timeout"
    /\ ret.kind = "None"

\* C19 (as claimed): while a start() has returned Ok, the process is alive
\* and the watcher still waits for it (it has neither observed a
\* termination nor aborted), the exit cell is empty.
C19_NoStatusWhileRunning ==
    (startedOk /\ status = "Running" /\ ProcAlive /\ watcher = "waiting")
        => ~CellIsSet(exit_code)

\* C13 (as claimed): when the module-loading client returned an error in
\* new(), at connect or at load_modules, new() has not failed on that
\* account: the warning was logged and new() went on with an empty module
\* list and the default platform.
C13_ModuleLoadDegrades ==
    new.moduleErr # "none"
        => (/\ new.failedAt # new.moduleErr
            /\ new.warned
            /\ new.modules = <<>>
            /\ new.platform = PlatformDefault
            /\ new.pc \in {"n_rootdir", "n_builder", "n_stdio", "n_build",
                            "n_ret", "n_done"})

\* C14 (as claimed): once main() has dispatched, the role it started is
\* the one whose name equals the base file name of os_args[0] exactly
\* (containerd-shim-<name>-v1: CLI, containerd-shim-<name>d-v1: manager
\* client, containerd-<name>d: daemon, <name> in lower case), and every
\* other base file name got the usage error and exit code 137.
C14_RoleByExactName ==
    (main.role # "none" \/ main.printed = "usage")
        => LET base == FileName(main.os_args[1])
               lower_name == ToLowercase(main.name)
           IN  /\ main.role = "cli" <=> base = ShimCli(lower_name)
               /\ main.role = "client" <=> base = ShimClient(lower_name)
               /\ main.role = "daemon" <=> base = ShimDaemon(lower_name)
               /\ (main.printed = "usage" /\ main.exitCode = 137)
                     <=> base \notin {ShimCli(lower_name),
                                      ShimClient(lower_name),
                                      ShimDaemon(lower_name)}

\* C15: with flags.version set no role is ever started and the usage
\* error is never printed, whatever the program name; main() never gets to
\* the comparison of names; the step taken at the version check prints the
\* version block and exits with code 0, and the process never exits with
\* 137.
C15_VersionShortCircuit ==
    /\ [](main.version
            => (/\ main.role = "none"
                /\ main.printed # "usage"
                /\ main.exitCode \in {-1, 0}
                /\ main.pc \in {"m_stem", "m_version", "m_exited"}))
    /\ [][(main.version /\ main.pc = "m_version")
             => (/\ main'.printed = "version"
                 /\ main'.exitCode = 0
                 /\ main'.pc = "m_exited"
                 /\ main'.role = "none")]_vars

\* C15 witness: the shim was invoked under an unrecognised name with the
\* version flag, printed the version block and exited with 0.
C15_Witness ==
    /\ main.version
    /\ main.argv0 = <<"u", "n", "k">>
    /\ main.printed = "version"
    /\ main.exitCode = 0
    /\ main.pc = "m_exited"

\* The exit code the claim C16 gives for a handler's return value.
RECURSIVE C16_Code(_)
C16_Code(v) ==
    IF v.wraps # <<>> THEN C16_Code([v EXCEPT !.wraps = Tail(v.wraps)])
    ELSE IF v.leaf.tag = "Unit" THEN 0
    ELSE IF v.leaf.tag = "Int" THEN v.leaf.n
    ELSE 137

\* C16: when run_wasi has exited, exit was called with 0 for unit, n for an
\* integer n, 137 for Err(e) with e logged (and nothing logged otherwise),
\* through any nesting of Ok; a deferred value was driven by exactly one
\* block_on, made before anything else was resolved, and no other value
\* by any.
C16_CompletionMapping ==
    /\ [](run_wasi.pc = "t_exited"
            => LET v == run_wasi.handlerRet
               IN  /\ run_wasi.exitArg = <<C16_Code(v)>>
                   /\ run_wasi.logged = IF v.leaf.tag = "Err"
                                          THEN <<v.leaf.n>> ELSE <<>>
                   /\ run_wasi.blockOns = IF v \in Futures THEN 1 ELSE 0)
    /\ [][run_wasi'.blockOns # run_wasi.blockOns
             => (/\ run_wasi.cur = run_wasi.handlerRet
                 /\ run_wasi'.cur = Inner(run_wasi.handlerRet))]_vars

\* C16 witness: a future with output Ok(3) was driven by one block_on and
\* exit(3) called.
C16_Witness ==
    /\ run_wasi.handlerRet
          = Value(<<"Deferred", "Ok">>, [tag |-> "Int", n |-> 3])
    /\ run_wasi.blockOns = 1
    /\ run_wasi.exitArg = <<3>>
    /\ run_wasi.pc = "t_exited"

\* Bit i of the two's complement representation of n.
C17_Bit(n, i) == (n \div (2 ^ i)) % 2

\* The low 8 bits of n.
C17_Low8(n) ==
    C17_Bit(n, 0) + 2 * C17_Bit(n, 1) + 4 * C17_Bit(n, 2)
        + 8 * C17_Bit(n, 3) + 16 * C17_Bit(n, 4) + 32 * C17_Bit(n, 5)
        + 64 * C17_Bit(n, 6) + 128 * C17_Bit(n, 7)

\* C17: every value a handler can return is resolved to exactly one exit:
\* while resolving, a step is always possible; an exit, once made, stays;
\* the exit status is in 0..255 and for an integer n it is the low 8 bits
\* of n; the statement after the resolve call is never reached.
C17_ResolutionTotal ==
    /\ [](run_wasi.pc = "t_resolve" => ENABLED Resolve)
    /\ [](run_wasi.pc = "t_exited"
            => (/\ run_wasi.osCode \in 0..255
                /\ Len(run_wasi.exitArg) = 1
                /\ run_wasi.handlerRet.leaf.tag = "Int"
                      => run_wasi.osCode
                           = C17_Low8(run_wasi.handlerRet.leaf.n)))
    /\ [][run_wasi.exitArg # <<>>
             => (/\ run_wasi'.exitArg = run_wasi.exitArg
                 /\ run_wasi'.osCode = run_wasi.osCode)]_vars
    /\ [](run_wasi.pc \in {"t_idle", "t_call", "t_resolve", "t_exited"})

\* C17 witness: the handler returned Ok(-1) and the process exited with
\* status 255.
C17_Witness ==
    /\ run_wasi.handlerRet = Value(<<"Ok">>, [tag |-> "Int", n |-> -1])
    /\ run_wasi.exitArg = <<-1>>
    /\ run_wasi.osCode = 255
    /\ run_wasi.pc = "t_exited"

====
